---------------------------- MODULE Spec2Model ----------------------------
(***************************************************************************)
(* Model of src/lib/sync-cabecalho-nota-service.ts: the paginated,         *)
(* token-refreshing retrieval of note headers (buscarCabecalhoNotaSankhya),*)
(* the stale-mark / upsert reconciliation against AS_CABECALHO_NOTA        *)
(* (marcarTodosComoNaoAtuais, upsertCabecalhoNota), the tenant sync        *)
(* (sincronizarCabecalhoNotaPorEmpresa), the fleet runner                  *)
(* (sincronizarTodasEmpresas) and the POST route that calls them.          *)
(*                                                                         *)
(* The store is Oracle with autoCommit off: a connection's statements are  *)
(* pending (tx) until connection.commit() makes them durable (mirror);     *)
(* rollback or close discards what is pending.  A failed statement undoes  *)
(* only itself.                                                            *)
(***************************************************************************)
EXTENDS Integers, Sequences, FiniteSets

VARIABLES
  mirror,    \* committed rows of AS_CABECALHO_NOTA: <<ID_SISTEMA, NUNOTA>> -> row
  remote,    \* the remote source a retrieval in progress reads, per tenant: its pages
  ativos,    \* AD_CONTRATOS: the tenants flagged ATIVO = 'S'
  issued,    \* TokenSupplier: number of the credential last issued per tenant
  relogio,   \* CURRENT_TIMESTAMP, one tick per tenant sync started
  falhas,    \* faults the remote side injected into the retrieval in progress
  recusas,   \* statements of the per-record loop the store has failed so far
  cfg,       \* the environment of the behaviour (fixed by Init): who calls, which
             \* tenants exist, which sources the remote side may hold
  run,       \* per caller: the frame of sincronizarCabecalhoNotaPorEmpresa
  fleet,     \* per caller: the frame of POST / sincronizarTodasEmpresas
  ultimo     \* per tenant: what the last returned tenant sync did (history)

vars == <<mirror, remote, ativos, issued, relogio, falhas, recusas, cfg, run, fleet,
          ultimo>>

----------------------------------------------------------------------------
(* Program constants *)

MAX_RETRIES == 3
BATCH_SIZE == 100

(* Model bounds *)

MaxRuns == 2       \* tenant syncs started in one behaviour
MaxRunsLote == 1   \* the same, where a source fills more than one batch
MaxFalhas == 3     \* faults injected into one retrieval
MaxRecusas == 1    \* statements of the per-record loop the store fails in one behaviour
MaxPosFalha == 2   \* where a source fills more than one batch, the store fails
                   \* statements only for the first records of a batch

Tenants == {1, 2}
Callers == {1, 2}

\* ORDER BY EMPRESA: the rank of each tenant's name (tenant 2 sorts first)
OrdemEmpresa(t) == IF t = 2 THEN 1 ELSE 2

----------------------------------------------------------------------------
(* Remote records and pages *)

Ausente == 0        \* a field the payload did not carry, or carried as 0
Nulo == -1          \* SQL NULL

Rec(n, v) == [NUNOTA |-> n, VLRNOTA |-> v]

\* one loadRecords response body: entities.entity present?, its records, hasMoreResult
Pag(recs, more) == [entity |-> TRUE, recs |-> recs, more |-> more]
SemEntidade == [entity |-> FALSE, recs |-> <<>>, more |-> FALSE]

\* no record at all: page 0 comes without an entity list
FonteVazia == <<>>
\* four pages of one record
FonteQuatro ==
  << Pag(<<Rec(1, 5)>>, TRUE), Pag(<<Rec(2, 5)>>, TRUE),
     Pag(<<Rec(3, 5)>>, TRUE), Pag(<<Rec(4, 5)>>, FALSE) >>
\* a record without value; an empty page that says there is more, so that page 2
\* is never asked for
FonteRuim ==
  << Pag(<<Rec(2, 7), Rec(5, Ausente)>>, TRUE), Pag(<<>>, TRUE),
     Pag(<<Rec(3, 5)>>, FALSE) >>
\* the same identifier on two pages; the last page says there is more
FonteDupla == << Pag(<<Rec(1, 5)>>, TRUE), Pag(<<Rec(1, 7)>>, TRUE) >>
\* two records on one page
FonteDois == << Pag(<<Rec(1, 5), Rec(2, 5)>>, FALSE) >>
\* one record more than a batch holds
FonteLote == << Pag([n \in 1..(BATCH_SIZE + 1) |-> Rec(n, 5)], FALSE) >>

\* the response to a request for offsetPage p (0-based); past the last page the
\* service answers without an entity list
Resposta(fonte, p) == IF p + 1 <= Len(fonte) THEN fonte[p + 1] ELSE SemEntidade

----------------------------------------------------------------------------
(* Errors: what the handlers read of a thrown value *)

SemStatus == 0     \* error.response is undefined

Msg(texto) == [texto |-> texto, tentativas |-> 0, causa |-> ""]
Erro(code, status, texto) == [code |-> code, status |-> status, message |-> Msg(texto)]

SemErro == Erro("", SemStatus, "")

E401 == Erro("ERR_BAD_REQUEST", 401, "Request failed with status code 401")
E403 == Erro("ERR_BAD_REQUEST", 403, "Request failed with status code 403")
E404 == Erro("ERR_BAD_REQUEST", 404, "Request failed with status code 404")
E500 == Erro("ERR_BAD_RESPONSE", 500, "Request failed with status code 500")
ETimeout == Erro("ECONNABORTED", SemStatus, "timeout of 60000ms exceeded")
EConnTimedOut == Erro("ETIMEDOUT", SemStatus, "connect ETIMEDOUT")
ENotFound == Erro("ENOTFOUND", SemStatus, "getaddrinfo ENOTFOUND")
EConnReset == Erro("ECONNRESET", SemStatus, "read ECONNRESET")
EPayload == Erro("", SemStatus, "Cannot read properties of undefined")
ESemContrato == Erro("", SemStatus, "Nenhum contrato ativo encontrado")
EBanco == Erro("", SemStatus, "ORA-03113")

ErrosAuth == {E401, E403}
ErrosPagina == {E404, E500, ETimeout, EConnTimedOut, ENotFound, EConnReset,
                EPayload, ESemContrato}
\* what obterToken throws: the refusal or the timeout of its own request (an
\* error that is a 401/403 response and a timeout at once is not among them)
ErrosToken == {E401, ETimeout}
\* a 4xx other than 401/403, a payload that cannot be mapped, no active contract
ErrosPermanentes == {E404, EPayload, ESemContrato}

\* error.message?.includes('timeout')
IncluiTimeout(m) ==
  \/ m.texto \in {"timeout of 60000ms exceeded"}
  \/ m.causa \in {"timeout of 60000ms exceeded"}

----------------------------------------------------------------------------
(* The store *)

\* a table with no rows.  A row is named <<ID_SISTEMA, NUNOTA, r>>: whether the
\* table has a unique key on (ID_SISTEMA, NUNOTA) is not in this file, so r tells
\* rows of one ID_SISTEMA and NUNOTA apart (r is the request whose INSERT stored
\* the row)
Vazio == [k \in {} |-> 0]

\* the rows WHERE ID_SISTEMA = :idSistema AND NUNOTA = :nunota matches
Linhas(v, idSistema, nunota) ==
  {k \in DOMAIN v : k[1] = idSistema /\ k[2] = nunota}

\* what a connection reads: the committed rows overlaid with its own pending ones
Visao(m, tx) ==
  [k \in DOMAIN m \cup DOMAIN tx |-> IF k \in DOMAIN tx THEN tx[k] ELSE m[k]]

\* row k written (inserted or replaced)
Grava(tx, k, linha) == [j \in DOMAIN tx \cup {k} |-> IF j = k THEN linha ELSE tx[j]]

Ativas(m, t) == {k \in DOMAIN m : k[1] = t /\ m[k].SANKHYA_ATUAL = "S"}
IdsAtivos(m, t) == {k[2] : k \in Ativas(m, t)}
DoTenant(m, t) == [k \in {j \in DOMAIN m : j[1] = t} |-> m[k]]

----------------------------------------------------------------------------
(* Reconciler *)

\* a stale-marking that matched no row
marcarNenhum(m, tx, idSistema, agora) == [tx |-> tx, rowsAffected |-> 0]

\* a stale-marking whose WHERE lost the tenant
marcarDeTodos(m, tx, idSistema, agora) ==
  LET v == Visao(m, tx)
      afetadas == {k \in DOMAIN v : v[k].SANKHYA_ATUAL = "S"}
  IN [tx |-> [k \in DOMAIN tx \cup afetadas |->
                IF k \in afetadas
                THEN [v[k] EXCEPT !.SANKHYA_ATUAL = "N", !.DT_ULT_CARGA = agora]
                ELSE tx[k]],
      rowsAffected |-> Cardinality(afetadas)]

\* UPDATE ... SET SANKHYA_ATUAL = 'N', DT_ULT_CARGA = CURRENT_TIMESTAMP
\* WHERE ID_SISTEMA = :idSistema AND SANKHYA_ATUAL = 'S'   (autoCommit: false)
marcarTodosComoNaoAtuais(m, tx, idSistema, agora) ==
  LET v == Visao(m, tx)
      afetadas == {k \in DOMAIN v : k[1] = idSistema /\ v[k].SANKHYA_ATUAL = "S"}
  IN [tx |-> [k \in DOMAIN tx \cup afetadas |->
                IF k \in afetadas
                THEN [v[k] EXCEPT !.SANKHYA_ATUAL = "N", !.DT_ULT_CARGA = agora]
                ELSE tx[k]],
      rowsAffected |-> Cardinality(afetadas)]

\* x || null
OuNulo(x) == IF x = Ausente THEN Nulo ELSE x

\* SELECT COUNT(*) ... WHERE ID_SISTEMA = :idSistema AND NUNOTA = :nunota; COUNT > 0
Existe(m, tx, idSistema, nunota) == Linhas(Visao(m, tx), idSistema, nunota) # {}

\* ORA-00001: an INSERT of a (ID_SISTEMA, NUNOTA) that is there, the table having
\* a unique key on the pair
ChaveViolada(m, tx, idSistema, nunota, chaveUnica) ==
  chaveUnica /\ Existe(m, tx, idSistema, nunota)

\* the UPDATE of lines 275-297 on every row it matches
atualizar(m, tx, idSistema, cab, agora) ==
  LET v == Visao(m, tx)
      alvo == Linhas(v, idSistema, cab.NUNOTA)
  IN [k \in DOMAIN tx \cup alvo |->
        IF k \in alvo
        THEN [v[k] EXCEPT !.VLRNOTA = OuNulo(cab.VLRNOTA),
                          !.SANKHYA_ATUAL = "S",
                          !.DT_ULT_CARGA = agora]
        ELSE tx[k]]

\* the row of the INSERT of lines 346-368
novaLinha(cab, agora) ==
  [VLRNOTA |-> OuNulo(cab.VLRNOTA), SANKHYA_ATUAL |-> "S",
   DT_ULT_CARGA |-> agora, DT_CRIACAO |-> agora]

\* an UPDATE that stamped the creation time again
upsertRegistroRecria(m, st, idSistema, cab, exists, falha, agora, quem) ==
  LET v == Visao(m, st.tx)
      alvo == Linhas(v, idSistema, cab.NUNOTA)
  IN IF falha
     THEN st
     ELSE IF exists
          THEN [st EXCEPT
                  !.tx = [k \in DOMAIN st.tx \cup alvo |->
                            IF k \in alvo THEN novaLinha(cab, agora) ELSE st.tx[k]],
                  !.atualizados = @ + 1]
          ELSE [st EXCEPT
                  !.tx = Grava(st.tx, <<idSistema, cab.NUNOTA, quem>>,
                               novaLinha(cab, agora)),
                  !.inseridos = @ + 1]

\* a pass that counted a record whose statement failed
upsertRegistroConta(m, st, idSistema, cab, exists, falha, agora, quem) ==
  IF exists
  THEN [st EXCEPT
          !.tx = IF falha THEN @ ELSE atualizar(m, st.tx, idSistema, cab, agora),
          !.atualizados = @ + 1]
  ELSE [st EXCEPT
          !.tx = IF falha THEN @
                 ELSE Grava(st.tx, <<idSistema, cab.NUNOTA, quem>>,
                            novaLinha(cab, agora)),
          !.inseridos = @ + 1]

\* Lines 272-370 for one record, exists being what the lookup answered: the
\* UPDATE and atualizados++, or the INSERT and inseridos++; a statement that
\* throws leaves the counters alone (the catch of lines 372-374).
\* st = [tx, inseridos, atualizados].
upsertRegistro(m, st, idSistema, cab, exists, falha, agora, quem) ==
  IF falha
  THEN st
  ELSE IF exists
       THEN [st EXCEPT
               !.tx = atualizar(m, st.tx, idSistema, cab, agora),
               !.atualizados = @ + 1]
       ELSE [st EXCEPT
               !.tx = Grava(st.tx, <<idSistema, cab.NUNOTA, quem>>,
                            novaLinha(cab, agora)),
               !.inseridos = @ + 1]

\* cabecalhos.slice(i, i + BATCH_SIZE), i 0-based
Slice(s, i, j) == [p \in 1..((IF j < Len(s) THEN j ELSE Len(s)) - i) |-> s[i + p]]

\* connection.commit(): the pending rows become durable
Commit(m, tx) == Visao(m, tx)


----------------------------------------------------------------------------
(* ResumableRetriever: buscarCabecalhoNotaSankhya *)

\* a retry that kept what the failed attempt had accumulated
iniciarBuscaAcumula(r, bearerToken, retryCount) ==
  [r EXCEPT !.pc = "pagina",
            !.bearerToken = bearerToken,
            !.retryCount = retryCount,
            !.currentPage = 0,
            !.currentToken = bearerToken]

\* let allCabecalhos = []; let currentPage = 0; let currentToken = bearerToken
\* (a call, or the recursive call of a retry, starts a fresh frame)
iniciarBusca(r, bearerToken, retryCount) ==
  [r EXCEPT !.pc = "pagina",
            !.bearerToken = bearerToken,
            !.retryCount = retryCount,
            !.allCabecalhos = <<>>,
            !.currentPage = 0,
            !.currentToken = bearerToken]

\* the frame of the retrieval is gone once it returns or throws
fimBusca(r) ==
  [r EXCEPT !.bearerToken = 0, !.retryCount = 0, !.allCabecalhos = <<>>,
            !.currentPage = 0, !.currentToken = 0]

\* return allCabecalhos: back in sincronizarCabecalhoNotaPorEmpresa, line 404
retornarBusca(r, todos) ==
  [fimBusca(r) EXCEPT !.pc = "connect", !.cabecalhos = todos]

\* a loop that believed hasMoreResult on an empty page
paginaRecebidaSegue(r, resp) ==
  IF ~resp.entity
  THEN retornarBusca(r, r.allCabecalhos)
  ELSE LET todos == r.allCabecalhos \o resp.recs
       IN IF ~resp.more
          THEN retornarBusca(r, todos)
          ELSE [r EXCEPT !.allCabecalhos = todos, !.currentPage = @ + 1]

\* a page that was answered: no entity list ends the loop; otherwise its records
\* are appended and the loop goes on only after a non-empty page with hasMoreResult
paginaRecebida(r, resp) ==
  IF ~resp.entity
  THEN retornarBusca(r, r.allCabecalhos)
  ELSE LET todos == r.allCabecalhos \o resp.recs
       IN IF Len(resp.recs) = 0 \/ ~resp.more
          THEN retornarBusca(r, todos)
          ELSE [r EXCEPT !.allCabecalhos = todos, !.currentPage = @ + 1]

\* pageError.response?.status === 401 || ... === 403
EhAuth(e) == e.status = 401 \/ e.status = 403

\* a renewal that went on to the next page
renovarNaPaginaPula(r, token) ==
  [r EXCEPT !.currentToken = token, !.currentPage = @ + 1]

\* lines 146-150: currentToken = await obterToken(idSistema, true); continue
renovarNaPagina(r, token) == [r EXCEPT !.currentToken = token]

\* a retry condition that took every error response for transient
EhTransitorioQuatro(e) ==
  \/ e.code = "ECONNABORTED"
  \/ e.code = "ETIMEDOUT"
  \/ e.code = "ENOTFOUND"
  \/ IncluiTimeout(e.message)
  \/ e.status >= 400

\* the retry condition of the outer catch
EhTransitorio(e) ==
  \/ e.code = "ECONNABORTED"
  \/ e.code = "ETIMEDOUT"
  \/ e.code = "ENOTFOUND"
  \/ IncluiTimeout(e.message)
  \/ e.status >= 500

TentaDeNovo(r, e) == r.retryCount < MAX_RETRIES - 1 /\ EhTransitorio(e)

\* new Error(`Erro ao buscar cabeçalhos de nota após ${retryCount + 1} tentativas: ${error.message}`)
ErroBusca(retryCount, e) ==
  [code |-> "", status |-> SemStatus,
   message |-> [texto |-> "Erro ao buscar cabecalhos de nota apos",
                tentativas |-> retryCount + 1,
                causa |-> e.message.texto]]

\* a catch that rolled back without asking whether there is a connection
lancarComRollback(r, e) == [r EXCEPT !.error = e, !.pc = "rollback"]

\* the catch of sincronizarCabecalhoNotaPorEmpresa takes over: rollback only with
\* a connection
lancar(r, e) ==
  [r EXCEPT !.error = e, !.pc = IF r.connection THEN "rollback" ELSE "logFalha"]

\* what obterToken(idSistema, true) gave: a credential, or the error it threw
Emitido(token) == [ok |-> TRUE, token |-> token, erro |-> SemErro]
Negado(e) == [ok |-> FALSE, token |-> 0, erro |-> e]

\* the outer catch called no obterToken
SemRenovacao == Negado(SemErro)

\* lines 176-180 are reached: the error is retried and is a 401/403 as well
RenovaNoCatch(r, e) == TentaDeNovo(r, e) /\ EhAuth(e)

\* The outer catch of the retrieval (lines 160-187).  A transient error with
\* attempts left calls the retrieval again: with a credential renewed there and
\* then if the error is a 401/403 as well (renov is what that obterToken gave; if
\* it threw, its error leaves the catch as it is), otherwise with the bearerToken
\* of this frame.  Any other error is wrapped and thrown.
capturaBusca(r, e, renov) ==
  IF TentaDeNovo(r, e)
  THEN IF EhAuth(e)
       THEN IF renov.ok
            THEN iniciarBusca(r, renov.token, r.retryCount + 1)
            ELSE lancar(fimBusca(r), renov.erro)
       ELSE iniciarBusca(r, r.bearerToken, r.retryCount + 1)
  ELSE lancar(fimBusca(r), ErroBusca(r.retryCount, e))

----------------------------------------------------------------------------
(* Frames *)

SemResultado ==
  [success |-> FALSE, idSistema |-> 0, totalRegistros |-> 0, registrosInseridos |-> 0,
   registrosAtualizados |-> 0, registrosDeletados |-> 0, erro |-> Msg("nenhum")]

RunIdle ==
  [pc |-> "idle", idSistema |-> 0,
   bearerToken |-> 0, retryCount |-> 0, allCabecalhos |-> <<>>, currentPage |-> 0,
   currentToken |-> 0, cabecalhos |-> <<>>,
   error |-> SemErro, connection |-> FALSE, aberta |-> FALSE, tx |-> Vazio,
   registrosDeletados |-> 0, i |-> 0, j |-> 1, exists |-> FALSE,
   inseridos |-> 0, atualizados |-> 0,
   resultado |-> SemResultado,
   \* history, read by the properties only
   h_antes |-> Vazio,        \* the committed rows when the run started
   h_tentativas |-> 0,       \* retrieval attempts started
   h_inicio |-> 0,           \* the page the current attempt asked for first
   h_causa |-> SemErro,      \* the error that ended the retrieval
   h_authPag |-> -1,         \* the page last refused 401/403 in this attempt
   h_authVezes |-> 0,        \* requests for the current page refused 401/403
   h_permanente |-> FALSE,   \* a page request of this retrieval failed for good
   h_snapshot |-> <<>>,      \* what the source held when the retrieval returned
   h_pulados |-> 0,          \* records whose statements failed
   h_lotes |-> 0,            \* batches committed
   h_estagio |-> "",         \* the stage that failed
   h_logFalhou |-> FALSE,    \* salvarLogSincronizacao threw
   h_rollbackFalhou |-> FALSE,
   h_closes |-> 0,           \* connection.close() calls
   h_closeFalhou |-> FALSE]  \* connection.close() threw

SemResposta == [status |-> 0, lista |-> <<>>]

FleetIdle ==
  [pc |-> "idle", rota |-> "", empresas |-> <<>>, k |-> 1, resultados |-> <<>>,
   resposta |-> SemResposta]

UltimoNenhum == [valido |-> FALSE, cabecalhos |-> <<>>, pulados |-> 0, ativasDepois |-> 0]

RECURSIVE Ordenar(_)
Ordenar(S) ==
  IF S = {} THEN <<>>
  ELSE LET m == CHOOSE x \in S : \A y \in S : OrdemEmpresa(x) <= OrdemEmpresa(y)
       IN <<m>> \o Ordenar(S \ {m})

\* obterToken(idSistema, true): a new credential, numbered
NovoToken(t) == issued[t] + 1

\* the complete snapshot of a source: its pages from page p up to the first one
\* without entity list, without records or without hasMoreResult
RECURSIVE SnapshotDe(_, _)
SnapshotDe(fonte, p) ==
  LET resp == Resposta(fonte, p)
  IN IF ~resp.entity \/ Len(resp.recs) = 0 \/ ~resp.more
     THEN resp.recs
     ELSE resp.recs \o SnapshotDe(fonte, p + 1)


----------------------------------------------------------------------------
(* Initial states: an empty mirror, nobody calling *)

\* the rows two earlier syncs of tenant 1 left: 1 and 200 current, 2 not
EspelhoAnterior ==
  [k \in {<<1, 1, 1>>, <<1, 2, 1>>, <<1, 200, 1>>} |->
     [VLRNOTA |-> 7, SANKHYA_ATUAL |-> IF k[2] = 2 THEN "N" ELSE "S",
      DT_ULT_CARGA |-> 0, DT_CRIACAO |-> 0]]

InitCom(callers, tenants, fontes, runs, espelhos, posFalha, chaves) ==
  /\ mirror \in espelhos
  /\ remote = [t \in Tenants |-> <<>>]
  /\ ativos \in SUBSET tenants
  /\ issued = [t \in Tenants |-> 0]
  /\ relogio = 0
  /\ falhas = 0
  /\ recusas = 0
  /\ \E chaveUnica \in chaves :
       cfg = [callers |-> callers, tenants |-> tenants, fontes |-> fontes,
              runs |-> runs, posFalha |-> posFalha, chaveUnica |-> chaveUnica]
  /\ run = [c \in Callers |-> RunIdle]
  /\ fleet = [c \in Callers |-> FleetIdle]
  /\ ultimo = [t \in Tenants |-> UltimoNenhum]

SetRun(c, r) == run' = [run EXCEPT ![c] = r]
SetFleet(c, f) == fleet' = [fleet EXCEPT ![c] = f]

----------------------------------------------------------------------------
(* SyncOrchestrator: sincronizarCabecalhoNotaPorEmpresa, up to the retrieval *)

\* the call: a fresh frame
Chamada(c, t) ==
  /\ relogio < cfg.runs
  /\ relogio' = relogio + 1
  /\ SetRun(c, [RunIdle EXCEPT !.pc = "token", !.idSistema = t,
                                 !.h_antes = DoTenant(mirror, t)])

\* another caller's retrieval for tenant t is in its page loop
OutroBuscando(c, t) ==
  \E d \in Callers \ {c} : run[d].pc = "pagina" /\ run[d].idSistema = t

\* line 403-404: const bearerToken = await obterToken(idSistema, true); then the
\* retrieval is called with it.  The remote side holds some source for the tenant
\* (the one it already serves to a retrieval in progress, if there is one).
TokenInicial(c) ==
  LET r == run[c] IN
  /\ r.pc = "token"
  /\ issued' = [issued EXCEPT ![r.idSistema] = NovoToken(r.idSistema)]
  /\ IF OutroBuscando(c, r.idSistema)
     THEN remote' = remote
     ELSE \E f \in cfg.fontes : remote' = [remote EXCEPT ![r.idSistema] = f]
  /\ SetRun(c, [iniciarBusca(r, NovoToken(r.idSistema), 0) EXCEPT
                  !.h_tentativas = 1,
                  !.h_inicio = iniciarBusca(r, NovoToken(r.idSistema), 0).currentPage])
  /\ UNCHANGED <<mirror, ativos, relogio, falhas, recusas, cfg, fleet, ultimo>>

TokenInicialFalha(c) ==
  LET r == run[c] IN
  /\ r.pc = "token"
  /\ \E e \in ErrosToken : SetRun(c, [lancar(r, e) EXCEPT !.h_estagio = "token"])
  /\ UNCHANGED <<mirror, remote, ativos, issued, relogio, falhas, recusas, cfg, fleet, ultimo>>

\* A pass of the page loop took the frame to r2, the remote side having injected
\* n faults, e being the error the outer catch saw (if any), renov what the
\* obterToken of the outer catch gave (if called).  When the retrieval ends, its
\* source and the numbering of its credentials are of no more use (unless another
\* retrieval for the tenant still reads them).
Passo(c, r2, n, e, renov) ==
  LET r == run[c]
      fim == r2.pc # "pagina"
      ultima == fim /\ ~OutroBuscando(c, r.idSistema)
      nova == ~fim /\ r2.retryCount # r.retryCount
  IN /\ falhas + n <= MaxFalhas
     /\ falhas' = IF fim /\ \A t \in Tenants : ~OutroBuscando(c, t)
                  THEN 0 ELSE falhas + n
     /\ remote' = IF ultima THEN [remote EXCEPT ![r.idSistema] = <<>>] ELSE remote
     /\ issued' = IF ultima THEN [issued EXCEPT ![r.idSistema] = 0]
                  ELSE IF renov.ok
                       THEN [issued EXCEPT ![r.idSistema] = renov.token]
                       ELSE issued
     /\ SetRun(c, [r2 EXCEPT
                     !.h_tentativas = IF nova THEN @ + 1 ELSE @,
                     !.h_inicio = IF nova THEN r2.currentPage ELSE @,
                     !.h_authPag = IF nova THEN -1 ELSE @,
                     !.h_authVezes = IF fim \/ nova \/ r2.currentPage # r.currentPage
                                     THEN 0 ELSE @,
                     !.h_causa = IF r2.pc # "logFalha" THEN @
                                 ELSE IF RenovaNoCatch(r, e) THEN renov.erro ELSE e,
                     !.h_permanente = @ \/ e \in ErrosPermanentes,
                     !.h_estagio = IF r2.pc = "logFalha" THEN "busca" ELSE @,
                     !.h_snapshot = IF r2.pc = "connect"
                                    THEN SnapshotDe(remote[r.idSistema], 0) ELSE @])

\* one pass of the page loop whose request is answered
PaginaOk(c) ==
  LET r == run[c] IN
  /\ r.pc = "pagina"
  /\ Passo(c, paginaRecebida(r, Resposta(remote[r.idSistema], r.currentPage)), 0,
           SemErro, SemRenovacao)
  /\ UNCHANGED <<mirror, ativos, relogio, recusas, cfg, fleet, ultimo>>

\* one pass whose request is refused 401/403: the credential is renewed in place
\* and the loop goes round with the same currentPage
PaginaAuth(c) ==
  LET r == run[c] IN
  /\ r.pc = "pagina"
  /\ falhas < MaxFalhas
  /\ falhas' = falhas + 1
  /\ \E e \in ErrosAuth :
       /\ EhAuth(e)
       /\ issued' = [issued EXCEPT ![r.idSistema] = NovoToken(r.idSistema)]
       /\ SetRun(c, [renovarNaPagina(r, NovoToken(r.idSistema)) EXCEPT
                       !.h_authPag = r.currentPage,
                       !.h_authVezes = @ + 1])
  /\ UNCHANGED <<mirror, remote, ativos, relogio, recusas, cfg, fleet, ultimo>>

\* what the obterToken of lines 176-180 may give, if the outer catch gets there
Renovacoes(r, e) ==
  IF RenovaNoCatch(r, e)
  THEN {Emitido(NovoToken(r.idSistema))} \cup {Negado(e3) : e3 \in ErrosToken}
  ELSE {SemRenovacao}

\* one pass whose request is refused 401/403 and the renewal itself throws: the
\* error of obterToken leaves the page loop for the outer catch
PaginaAuthTokenFalha(c) ==
  LET r == run[c] IN
  /\ r.pc = "pagina"
  /\ \E e \in ErrosAuth, e2 \in ErrosToken :
       /\ EhAuth(e)
       /\ \E renov \in Renovacoes(r, e2) :
            Passo(c, capturaBusca(r, e2, renov), 2, e2, renov)
  /\ UNCHANGED <<mirror, ativos, relogio, recusas, cfg, fleet, ultimo>>

\* one pass whose request fails otherwise (or finds no active contract, or a
\* payload it cannot map): rethrown by the inner catch to the outer one
PaginaErro(c) ==
  LET r == run[c] IN
  /\ r.pc = "pagina"
  /\ \E e \in ErrosPagina :
       /\ ~EhAuth(e)
       /\ \E renov \in Renovacoes(r, e) :
            Passo(c, capturaBusca(r, e, renov), 1, e, renov)
  /\ UNCHANGED <<mirror, ativos, relogio, recusas, cfg, fleet, ultimo>>

\* the retrieval's history is kept for one step after it ends
Esquece(r) ==
  [r EXCEPT !.h_tentativas = 0, !.h_inicio = 0, !.h_causa = SemErro, !.h_authPag = -1,
            !.h_authVezes = 0, !.h_permanente = FALSE]


----------------------------------------------------------------------------
(* SyncOrchestrator: the reconciliation *)

\* line 405: connection = await getOracleConnection()
Conecta(c) ==
  LET r == run[c] IN
  /\ r.pc = "connect"
  /\ SetRun(c, [Esquece(r) EXCEPT !.pc = "mark", !.connection = TRUE, !.aberta = TRUE])
  /\ UNCHANGED <<mirror, remote, ativos, issued, relogio, falhas, recusas, cfg, fleet, ultimo>>

ConectaFalha(c) ==
  LET r == run[c] IN
  /\ r.pc = "connect"
  /\ SetRun(c, [lancar(Esquece(r), EBanco) EXCEPT !.h_estagio = "connect"])
  /\ UNCHANGED <<mirror, remote, ativos, issued, relogio, falhas, recusas, cfg, fleet, ultimo>>

\* line 407, then the first test of the batch loop of upsertCabecalhoNota
Marca(c) ==
  LET r == run[c]
      res == marcarTodosComoNaoAtuais(mirror, r.tx, r.idSistema, relogio)
  IN
  /\ r.pc = "mark"
  /\ SetRun(c, [r EXCEPT !.tx = res.tx,
                         !.registrosDeletados = res.rowsAffected,
                         !.i = 0, !.j = 1,
                         !.pc = IF 0 < Len(r.cabecalhos) THEN "upsert" ELSE "commit"])
  /\ UNCHANGED <<mirror, remote, ativos, issued, relogio, falhas, recusas, cfg, fleet, ultimo>>

MarcaFalha(c) ==
  LET r == run[c] IN
  /\ r.pc = "mark"
  /\ SetRun(c, [lancar(r, EBanco) EXCEPT !.h_estagio = "mark"])
  /\ UNCHANGED <<mirror, remote, ativos, issued, relogio, falhas, recusas, cfg, fleet, ultimo>>

\* const batch = cabecalhos.slice(i, i + BATCH_SIZE)
Lote(r) == Slice(r.cabecalhos, r.i, r.i + BATCH_SIZE)

\* lines 372-374: the catch around one record; the loop goes on to the next
pular(r) ==
  [r EXCEPT !.pc = "upsert", !.exists = FALSE, !.j = @ + 1, !.h_pulados = @ + 1]

\* lines 227-234: the lookup of the next record of the batch is answered
UpsertConsulta(c) ==
  LET r == run[c] IN
  /\ r.pc = "upsert"
  /\ r.j <= Len(Lote(r))
  /\ SetRun(c, [r EXCEPT
                  !.exists = Existe(mirror, r.tx, r.idSistema, Lote(r)[r.j].NUNOTA),
                  !.pc = "write"])
  /\ UNCHANGED <<mirror, remote, ativos, issued, relogio, falhas, recusas, cfg, fleet,
                 ultimo>>

\* the store may fail a statement of this record
PodeRecusar(r) == recusas < MaxRecusas /\ r.j <= cfg.posFalha

\* the lookup throws
UpsertConsultaFalha(c) ==
  LET r == run[c] IN
  /\ r.pc = "upsert"
  /\ r.j <= Len(Lote(r))
  /\ PodeRecusar(r)
  /\ recusas' = recusas + 1
  /\ SetRun(c, pular(r))
  /\ UNCHANGED <<mirror, remote, ativos, issued, relogio, falhas, cfg, fleet, ultimo>>

\* the UPDATE or the INSERT of the record, thrown or not, and the step of the loop
Registro(c, falha) ==
  LET r == run[c]
      st == upsertRegistro(mirror, [tx |-> r.tx, inseridos |-> r.inseridos,
                                    atualizados |-> r.atualizados],
                           r.idSistema, Lote(r)[r.j], r.exists, falha, relogio, c)
  IN [(IF falha THEN pular(r)
       ELSE [r EXCEPT !.pc = "upsert", !.exists = FALSE, !.j = @ + 1])
        EXCEPT !.tx = st.tx, !.inseridos = st.inseridos,
               !.atualizados = st.atualizados]

\* with a unique key, an INSERT waits while another connection holds an
\* uncommitted row of the same ID_SISTEMA and NUNOTA
Aguarda(c) ==
  LET r == run[c] IN
  /\ cfg.chaveUnica
  /\ ~r.exists
  /\ ~Existe(mirror, r.tx, r.idSistema, Lote(r)[r.j].NUNOTA)
  /\ \E d \in Callers \ {c} :
       Linhas(run[d].tx, r.idSistema, Lote(r)[r.j].NUNOTA) # {}

\* lines 272-370: the statement the lookup chose is executed; an INSERT the unique
\* key refuses throws like any other
UpsertRegistro(c) ==
  LET r == run[c] IN
  /\ r.pc = "write"
  /\ ~Aguarda(c)
  /\ SetRun(c, Registro(c, ~r.exists /\ ChaveViolada(mirror, r.tx, r.idSistema,
                                                     Lote(r)[r.j].NUNOTA,
                                                     cfg.chaveUnica)))
  /\ UNCHANGED <<mirror, remote, ativos, issued, relogio, falhas, recusas, cfg, fleet,
                 ultimo>>

\* the UPDATE or the INSERT throws
UpsertRegistroFalha(c) ==
  LET r == run[c] IN
  /\ r.pc = "write"
  /\ PodeRecusar(r)
  /\ recusas' = recusas + 1
  /\ SetRun(c, Registro(c, TRUE))
  /\ UNCHANGED <<mirror, remote, ativos, issued, relogio, falhas, cfg, fleet, ultimo>>

\* line 377: await connection.commit() after the batch, then i += BATCH_SIZE and
\* the test of the batch loop
UpsertCommit(c) ==
  LET r == run[c] IN
  /\ r.pc = "upsert"
  /\ r.j > Len(Lote(r))
  /\ mirror' = Commit(mirror, r.tx)
  /\ SetRun(c, [r EXCEPT !.tx = Vazio, !.i = @ + BATCH_SIZE, !.j = 1,
                         !.h_lotes = @ + 1,
                         !.pc = IF r.i + BATCH_SIZE < Len(r.cabecalhos)
                                THEN "upsert" ELSE "commit"])
  /\ UNCHANGED <<remote, ativos, issued, relogio, falhas, recusas, cfg, fleet, ultimo>>

UpsertCommitFalha(c) ==
  LET r == run[c] IN
  /\ r.pc = "upsert"
  /\ r.j > Len(Lote(r))
  /\ SetRun(c, [lancar(r, EBanco) EXCEPT !.h_estagio = "lote"])
  /\ UNCHANGED <<mirror, remote, ativos, issued, relogio, falhas, recusas, cfg, fleet, ultimo>>

\* line 410: await connection.commit()
CommitFinal(c) ==
  LET r == run[c] IN
  /\ r.pc = "commit"
  /\ mirror' = Commit(mirror, r.tx)
  /\ SetRun(c, [r EXCEPT !.tx = Vazio, !.pc = "logSucesso"])
  /\ UNCHANGED <<remote, ativos, issued, relogio, falhas, recusas, cfg, fleet, ultimo>>

CommitFinalFalha(c) ==
  LET r == run[c] IN
  /\ r.pc = "commit"
  /\ SetRun(c, [lancar(r, EBanco) EXCEPT !.h_estagio = "commit"])
  /\ UNCHANGED <<mirror, remote, ativos, issued, relogio, falhas, recusas, cfg, fleet, ultimo>>


----------------------------------------------------------------------------
(* SyncOrchestrator: the outcome *)

\* a success outcome that counted the rows inactive at the end of the run
ResultadoSucessoInativos(r) ==
  [success |-> TRUE, idSistema |-> r.idSistema,
   totalRegistros |-> Len(r.cabecalhos),
   registrosInseridos |-> r.inseridos,
   registrosAtualizados |-> r.atualizados,
   registrosDeletados |->
     Cardinality({k \in DOMAIN mirror :
                    k[1] = r.idSistema /\ mirror[k].SANKHYA_ATUAL = "N"}),
   erro |-> Msg("")]

\* lines 439-450
ResultadoSucesso(r) ==
  [success |-> TRUE, idSistema |-> r.idSistema,
   totalRegistros |-> Len(r.cabecalhos),
   registrosInseridos |-> r.inseridos,
   registrosAtualizados |-> r.atualizados,
   registrosDeletados |-> r.registrosDeletados,
   erro |-> Msg("")]

\* a failure outcome that lost its error
ResultadoFalhaSemErro(r) ==
  [success |-> FALSE, idSistema |-> r.idSistema,
   totalRegistros |-> 0, registrosInseridos |-> 0,
   registrosAtualizados |-> 0, registrosDeletados |-> 0,
   erro |-> Msg("")]

\* lines 487-499
ResultadoFalha(r) ==
  [success |-> FALSE, idSistema |-> r.idSistema,
   totalRegistros |-> 0, registrosInseridos |-> 0,
   registrosAtualizados |-> 0, registrosDeletados |-> 0,
   erro |-> r.error.message]

\* lines 420-450: the log of the success, guarded; the return value is computed
LogSucesso(c) ==
  LET r == run[c] IN
  /\ r.pc = "logSucesso"
  /\ \E logOk \in BOOLEAN :
       SetRun(c, [r EXCEPT !.resultado = ResultadoSucesso(r), !.pc = "close",
                           !.h_logFalhou = ~logOk])
  /\ UNCHANGED <<mirror, remote, ativos, issued, relogio, falhas, recusas, cfg, fleet, ultimo>>

\* lines 455-461: the rollback, guarded
Rollback(c) ==
  LET r == run[c] IN
  /\ r.pc = "rollback"
  /\ \E rbOk \in BOOLEAN :
       SetRun(c, [r EXCEPT !.tx = IF rbOk THEN Vazio ELSE @, !.pc = "logFalha",
                           !.h_rollbackFalhou = ~rbOk])
  /\ UNCHANGED <<mirror, remote, ativos, issued, relogio, falhas, recusas, cfg, fleet, ultimo>>

\* lines 466-499: the log of the failure, guarded; the return value is computed
LogFalha(c) ==
  LET r == run[c] IN
  /\ r.pc = "logFalha"
  /\ \E logOk \in BOOLEAN :
       SetRun(c, [Esquece(r) EXCEPT !.resultado = ResultadoFalha(r),
                                    !.pc = IF r.connection THEN "close" ELSE "retorno",
                                    !.h_logFalhou = ~logOk])
  /\ UNCHANGED <<mirror, remote, ativos, issued, relogio, falhas, recusas, cfg, fleet, ultimo>>

\* a finally that closed only after a success
fecharSoNoSucesso(r, closeOk) ==
  IF r.error = SemErro
  THEN [r EXCEPT !.tx = Vazio, !.aberta = ~closeOk, !.h_closes = @ + 1,
                 !.pc = "retorno"]
  ELSE [r EXCEPT !.pc = "retorno"]

\* lines 502-508: await connection.close(), guarded; what is still pending on the
\* connection is never committed
fechar(r, closeOk) ==
  [r EXCEPT !.tx = Vazio, !.aberta = ~closeOk, !.h_closes = @ + 1, !.pc = "retorno"]

\* lines 501-509: finally
Close(c) ==
  LET r == run[c] IN
  /\ r.pc = "close"
  /\ \E closeOk \in BOOLEAN :
       SetRun(c, [fechar(r, closeOk) EXCEPT !.h_closeFalhou = ~closeOk])
  /\ UNCHANGED <<mirror, remote, ativos, issued, relogio, falhas, recusas, cfg, fleet, ultimo>>

\* what is remembered of a tenant sync that returned
Lembranca(r) ==
  IF r.resultado.success
  THEN [valido |-> TRUE, cabecalhos |-> r.h_snapshot, pulados |-> r.h_pulados,
        ativasDepois |-> Cardinality(Ativas(mirror, r.idSistema))]
  ELSE UltimoNenhum

\* the awaited promise resolves: the frame is gone
Entrega(c) ==
  /\ SetRun(c, RunIdle)
  /\ ultimo' = [ultimo EXCEPT ![run[c].idSistema] = Lembranca(run[c])]

----------------------------------------------------------------------------
(* The POST route and the FleetRunner: sincronizarTodasEmpresas *)

\* POST ?idSistema=..&empresa=..: line 705
POST_Empresa(c, t) ==
  /\ fleet[c].pc = "idle"
  /\ run[c].pc = "idle"
  /\ Chamada(c, t)
  /\ SetFleet(c, [FleetIdle EXCEPT !.pc = "direta", !.rota = "empresa"])
  /\ UNCHANGED <<mirror, remote, ativos, issued, falhas, recusas, cfg, ultimo>>

\* line 706: return NextResponse.json(resultado)
POST_EmpresaResponde(c) ==
  /\ fleet[c].pc = "direta"
  /\ run[c].pc = "retorno"
  /\ Entrega(c)
  /\ SetFleet(c, [fleet[c] EXCEPT !.pc = "respondido",
                                  !.resposta = [status |-> 200,
                                                lista |-> <<run[c].resultado>>]])
  /\ UNCHANGED <<mirror, remote, ativos, issued, relogio, falhas, recusas, cfg>>

\* the response is sent; the request is over
Fim(c) ==
  /\ fleet[c].pc = "respondido"
  /\ SetFleet(c, FleetIdle)
  /\ UNCHANGED <<mirror, remote, ativos, issued, relogio, falhas, recusas, cfg, run, ultimo>>

\* POST without parameters: line 708
POST_Todas(c) ==
  /\ fleet[c].pc = "idle"
  /\ run[c].pc = "idle"
  /\ relogio + Cardinality(ativos) <= cfg.runs
  /\ SetFleet(c, [FleetIdle EXCEPT !.pc = "enumera", !.rota = "todas"])
  /\ UNCHANGED <<mirror, remote, ativos, issued, relogio, falhas, recusas, cfg, run, ultimo>>

\* lines 533-539: no rows, return []; otherwise the loop starts
enumerar(f, empresas) ==
  IF Len(empresas) = 0
  THEN [f EXCEPT !.pc = "respondido", !.resposta = [status |-> 200, lista |-> <<>>]]
  ELSE [f EXCEPT !.pc = "loop", !.empresas = empresas, !.k = 1, !.resultados = <<>>]

\* lines 522-539: connect, SELECT ... WHERE ATIVO = 'S' ORDER BY EMPRESA, close
Enumera(c) ==
  /\ fleet[c].pc = "enumera"
  /\ SetFleet(c, enumerar(fleet[c], Ordenar(ativos)))
  /\ UNCHANGED <<mirror, remote, ativos, issued, relogio, falhas, recusas, cfg, run, ultimo>>

\* lines 559-561 and 711-716: the error is thrown on; the route answers 500
relancar(f, e) ==
  [f EXCEPT !.pc = "respondido", !.resposta = [status |-> 500, lista |-> <<>>]]

\* the connection, the query or the close throws
EnumeraFalha(c) ==
  /\ fleet[c].pc = "enumera"
  /\ SetFleet(c, relancar(fleet[c], EBanco))
  /\ UNCHANGED <<mirror, remote, ativos, issued, relogio, falhas, recusas, cfg, run, ultimo>>

\* line 542: the tenant sync of the next empresa is called
LoopChama(c) ==
  /\ fleet[c].pc = "loop"
  /\ fleet[c].k <= Len(fleet[c].empresas)
  /\ run[c].pc = "idle"
  /\ relogio' = relogio + 1
  /\ SetRun(c, [RunIdle EXCEPT !.pc = "token", !.idSistema = fleet[c].empresas[fleet[c].k],
                   !.h_antes = DoTenant(mirror, fleet[c].empresas[fleet[c].k])])
  /\ SetFleet(c, [fleet[c] EXCEPT !.pc = "espera"])
  /\ UNCHANGED <<mirror, remote, ativos, issued, falhas, recusas, cfg, ultimo>>

\* a loop that kept only the successes
empilharSoSucesso(f, resultado) ==
  [f EXCEPT !.resultados = IF resultado.success THEN Append(@, resultado) ELSE @,
            !.k = @ + 1, !.pc = "loop"]

\* a loop that threw a tenant's failure on to the caller
empilharLanca(f, resultado) ==
  IF resultado.success
  THEN [f EXCEPT !.resultados = Append(@, resultado), !.k = @ + 1, !.pc = "loop"]
  ELSE [f EXCEPT !.pc = "respondido", !.resposta = [status |-> 500, lista |-> <<>>]]

\* line 546: resultados.push(resultado); the loop goes on whatever the outcome
empilhar(f, resultado) ==
  [f EXCEPT !.resultados = Append(@, resultado), !.k = @ + 1, !.pc = "loop"]

LoopRecebe(c) ==
  /\ fleet[c].pc = "espera"
  /\ run[c].pc = "retorno"
  /\ Entrega(c)
  /\ SetFleet(c, empilhar(fleet[c], run[c].resultado))
  /\ UNCHANGED <<mirror, remote, ativos, issued, relogio, falhas, recusas, cfg>>

\* line 557: return resultados; line 709
LoopFim(c) ==
  /\ fleet[c].pc = "loop"
  /\ fleet[c].k > Len(fleet[c].empresas)
  /\ SetFleet(c, [fleet[c] EXCEPT !.pc = "respondido",
                                  !.resposta = [status |-> 200,
                                                lista |-> fleet[c].resultados]])
  /\ UNCHANGED <<mirror, remote, ativos, issued, relogio, falhas, recusas, cfg, run, ultimo>>

----------------------------------------------------------------------------
(* Specifications *)

FontesPequenas == {FonteVazia, FonteQuatro, FonteRuim, FonteDupla}

\* one caller posting tenant syncs, the sources small
Init == InitCom({1}, {1}, FontesPequenas, MaxRuns, {Vazio}, BATCH_SIZE, {TRUE})
\* one caller, a source of more than one batch, rows of earlier syncs
InitLote ==
  InitCom({1}, {1}, {FonteLote, FonteDois}, MaxRunsLote, {Vazio, EspelhoAnterior},
          MaxPosFalha, {TRUE})
\* one caller posting tenant syncs and fleet runs over two tenants
InitFrota == InitCom({1}, Tenants, {FonteDois}, MaxRuns, {Vazio}, BATCH_SIZE, {TRUE})
\* two callers posting tenant syncs of one tenant at the same time, the table
\* with and without a unique key
InitConc == InitCom(Callers, {1}, {FonteDois}, MaxRuns, {Vazio}, BATCH_SIZE, BOOLEAN)

NextEmpresa ==
  \/ \E c \in cfg.callers, t \in cfg.tenants : POST_Empresa(c, t)
  \/ \E c \in cfg.callers : TokenInicial(c)
  \/ \E c \in cfg.callers : TokenInicialFalha(c)
  \/ \E c \in cfg.callers : PaginaOk(c)
  \/ \E c \in cfg.callers : PaginaAuth(c)
  \/ \E c \in cfg.callers : PaginaAuthTokenFalha(c)
  \/ \E c \in cfg.callers : PaginaErro(c)
  \/ \E c \in cfg.callers : Conecta(c)
  \/ \E c \in cfg.callers : ConectaFalha(c)
  \/ \E c \in cfg.callers : Marca(c)
  \/ \E c \in cfg.callers : MarcaFalha(c)
  \/ \E c \in cfg.callers : UpsertConsulta(c)
  \/ \E c \in cfg.callers : UpsertConsultaFalha(c)
  \/ \E c \in cfg.callers : UpsertRegistro(c)
  \/ \E c \in cfg.callers : UpsertRegistroFalha(c)
  \/ \E c \in cfg.callers : UpsertCommit(c)
  \/ \E c \in cfg.callers : UpsertCommitFalha(c)
  \/ \E c \in cfg.callers : CommitFinal(c)
  \/ \E c \in cfg.callers : CommitFinalFalha(c)
  \/ \E c \in cfg.callers : LogSucesso(c)
  \/ \E c \in cfg.callers : Rollback(c)
  \/ \E c \in cfg.callers : LogFalha(c)
  \/ \E c \in cfg.callers : Close(c)
  \/ \E c \in cfg.callers : POST_EmpresaResponde(c)
  \/ \E c \in cfg.callers : Fim(c)

NextFrota ==
  \/ \E c \in cfg.callers : POST_Todas(c)
  \/ \E c \in cfg.callers : Enumera(c)
  \/ \E c \in cfg.callers : EnumeraFalha(c)
  \/ \E c \in cfg.callers : LoopChama(c)
  \/ \E c \in cfg.callers : LoopRecebe(c)
  \/ \E c \in cfg.callers : LoopFim(c)

Next == NextEmpresa \/ NextFrota

Spec == Init /\ [][NextEmpresa]_vars
SpecLote == InitLote /\ [][NextEmpresa]_vars
SpecFrota == InitFrota /\ [][Next]_vars
SpecConc == InitConc /\ [][NextEmpresa]_vars


----------------------------------------------------------------------------
(* Properties *)

\* the record identifiers of a snapshot
IdsDe(cabs) == {cabs[n].NUNOTA : n \in 1..Len(cabs)}

\* the identifiers of a snapshot are pairwise distinct
SemRepetidos(cabs) == Cardinality(IdsDe(cabs)) = Len(cabs)

\* the records of pages 0..p-1 of a source, in page order
RECURSIVE PrefixoDe(_, _)
PrefixoDe(fonte, p) ==
  IF p = 0 THEN <<>> ELSE PrefixoDe(fonte, p - 1) \o Resposta(fonte, p - 1).recs

\* the run of caller c has computed a success (failure) outcome and is returning
Sucesso(c) == run[c].pc = "retorno" /\ run[c].resultado.success
Falha(c) == run[c].pc = "retorno" /\ ~run[c].resultado.success

\* C1 (soft-delete completeness): after a tenant sync returns success, the
\* identifiers of the tenant's rows flagged 'S' are exactly the identifiers of
\* the snapshot just processed, and every row that was 'S' before the run and
\* is not in the snapshot is flagged 'N'.
C1_AtivosIguaisAoSnapshot ==
  \A c \in Callers :
    Sucesso(c) =>
      LET r == run[c] IN
      /\ IdsAtivos(mirror, r.idSistema) = IdsDe(r.h_snapshot)
      /\ \A k \in Ativas(r.h_antes, r.idSistema) :
           k[2] \notin IdsDe(r.h_snapshot) => mirror[k].SANKHYA_ATUAL = "N"

\* C2 (never half-updated): whenever a tenant sync returns a failure outcome, the
\* committed rows of the tenant are what they were when the run started.
C2_FalhaNaoDeixaRastro ==
  \A c \in Callers :
    Falha(c) => DoTenant(mirror, run[c].idSistema) = run[c].h_antes

\* C3 (retrieval all-or-nothing): during an attempt the accumulated records are
\* exactly those of pages 0..currentPage-1 of the source, each once and in page
\* order (nothing of an earlier failed attempt); what the retrieval returns is
\* the complete snapshot; a retrieval that fails hands no records on and the
\* store is not touched.
C3_TudoOuNada ==
  \A c \in Callers :
    LET r == run[c] IN
    /\ r.pc = "pagina" =>
         r.allCabecalhos = PrefixoDe(remote[r.idSistema], r.currentPage)
    /\ r.pc = "connect" => r.cabecalhos = r.h_snapshot
    /\ (r.pc = "logFalha" /\ r.h_estagio = "busca") =>
         r.cabecalhos = <<>> /\ ~r.connection

\* a retrieval returned all four records at its third attempt
C3_Testemunha ==
  \E c \in Callers :
    /\ run[c].pc = "connect"
    /\ run[c].h_tentativas = 3
    /\ Len(run[c].cabecalhos) = 4

\* C4 (resumable pagination): a page request refused 401/403 makes the retriever
\* renew the credential and ask for the same page again with the accumulated
\* records unchanged; a retrieval whose attempt met such a refusal returns every
\* record of every page exactly once.
C4_RetomaNaMesmaPagina ==
  /\ [][\A c \in Callers :
          (/\ run[c].pc = "pagina" /\ run'[c].pc = "pagina"
           /\ issued'[run[c].idSistema] = issued[run[c].idSistema] + 1)
          => /\ run'[c].currentPage = run[c].currentPage
             /\ run'[c].allCabecalhos = run[c].allCabecalhos
             /\ run'[c].currentToken = issued'[run[c].idSistema]
             /\ run'[c].currentToken # run[c].currentToken]_vars
  /\ [](\A c \in Callers :
          (run[c].pc = "connect" /\ run[c].h_authPag >= 0)
          => run[c].cabecalhos = run[c].h_snapshot)

\* the credential expired on page 2 of 4 and all four records were returned
C4_Testemunha ==
  \E c \in Callers :
    /\ run[c].pc = "connect"
    /\ run[c].h_authPag = 2
    /\ run[c].h_tentativas = 1
    /\ Len(run[c].cabecalhos) = 4

\* the failures of the transient class: timeout, connection reset, DNS failure, 5xx
ClasseTransitoria == {ETimeout, EConnTimedOut, EConnReset, ENotFound, E500}

\* C5 (bounded retry): the retrieval is attempted at most 3 times, each attempt
\* starting at page 0; a retrieval ended by a failure of the transient class
\* (timeout, connection reset, DNS failure, 5xx) has made exactly 3 attempts and
\* its error names the 3 attempts; a retrieval that succeeds at a later attempt
\* returns the full snapshot.
C5_TentativasLimitadas ==
  \A c \in Callers :
    LET r == run[c] IN
    /\ r.h_tentativas <= MAX_RETRIES
    /\ r.pc = "pagina" => r.h_inicio = 0
    /\ (r.pc = "logFalha" /\ r.h_estagio = "busca"
          /\ r.h_causa \in ClasseTransitoria) =>
         /\ r.h_tentativas = MAX_RETRIES
         /\ r.error.message.tentativas = MAX_RETRIES
         /\ r.error.message.causa = r.h_causa.message.texto
    /\ (r.pc = "connect" /\ r.h_tentativas > 1) => r.cabecalhos = r.h_snapshot


\* the stages of a tenant sync that can fail
Estagios == {"token", "busca", "connect", "mark", "lote", "commit"}

\* C6 (always an outcome): a tenant sync returns an outcome whatever stage fails
\* and whether or not the rollback, the log or the close fails: success exactly
\* when no stage failed, with the counts of the run; otherwise failure with the
\* message of the error of the stage and zero counts.
C6_SempreRetornaResultado ==
  \A c \in Callers :
    LET r == run[c]
        o == r.resultado
    IN r.pc = "retorno" =>
         /\ o.idSistema = r.idSistema
         /\ o.success = (r.h_estagio = "")
         /\ r.h_estagio \in Estagios \cup {""}
         /\ o.success =>
              /\ o.erro = Msg("")
              /\ o.totalRegistros = Len(r.h_snapshot)
              /\ o.registrosInseridos = r.inseridos
              /\ o.registrosAtualizados = r.atualizados
              /\ o.registrosDeletados = Cardinality(Ativas(r.h_antes, r.idSistema))
         /\ ~o.success =>
              /\ o.erro = r.error.message
              /\ o.erro.texto # ""
              /\ o.totalRegistros = 0
              /\ o.registrosInseridos = 0
              /\ o.registrosAtualizados = 0
              /\ o.registrosDeletados = 0

\* a failed final commit, then rollback, log and close all failing: an outcome
C6_Testemunha ==
  \E c \in Callers :
    /\ Falha(c)
    /\ run[c].h_estagio = "commit"
    /\ run[c].h_rollbackFalhou
    /\ run[c].h_logFalhou
    /\ run[c].aberta

\* C7 (fleet never aborts early): a fleet run that returns has one outcome per
\* active tenant, in the order of the enumeration (ORDER BY EMPRESA), the
\* failures among them; while it runs, it has one outcome per tenant already
\* synchronised.
C7_UmResultadoPorEmpresa ==
  \A c \in Callers :
    LET f == fleet[c]
        l == f.resposta.lista
    IN /\ (f.pc = "respondido" /\ f.rota = "todas" /\ f.resposta.status = 200) =>
            /\ Len(l) = Cardinality(ativos)
            /\ {l[n].idSistema : n \in 1..Len(l)} = ativos
            /\ \A n \in 1..Len(l), m \in 1..Len(l) :
                 n < m => OrdemEmpresa(l[n].idSistema) < OrdemEmpresa(l[m].idSistema)
       /\ f.pc \in {"loop", "espera"} =>
            /\ Len(f.resultados) = f.k - 1
            /\ \A n \in 1..Len(f.resultados) :
                 f.resultados[n].idSistema = f.empresas[n]

\* two active tenants, the first failed, the second succeeded: two outcomes
C7_Testemunha ==
  \E c \in Callers :
    /\ fleet[c].pc = "respondido"
    /\ fleet[c].rota = "todas"
    /\ Len(fleet[c].resposta.lista) = 2
    /\ ~fleet[c].resposta.lista[1].success
    /\ fleet[c].resposta.lista[2].success

\* C8 as claimed (never a bare fault): every request is answered with an
\* outcome or a list of outcomes, also a fleet run whose connection or
\* enumeration fails.
C8_NuncaFalhaNua ==
  \A c \in Callers :
    fleet[c].pc = "respondido" => fleet[c].resposta.status = 200

\* C8 as amended: a tenant sync always answers with its outcome; a fleet run
\* answers with the list of outcomes unless the connection or the enumeration of
\* the active tenants failed, before any tenant was synchronised, in which case
\* the error is thrown on and the route answers 500.
C8_SoAEnumeracaoLanca ==
  \A c \in Callers :
    LET f == fleet[c] IN
    f.pc = "respondido" =>
      /\ f.rota = "empresa" =>
           /\ f.resposta.status = 200
           /\ Len(f.resposta.lista) = 1
      /\ (f.rota = "todas" /\ f.resposta.status # 200) =>
           /\ f.resposta.status = 500
           /\ f.empresas = <<>>
           /\ f.resultados = <<>>

\* a fleet run whose enumeration failed: answered 500
C8_Testemunha ==
  \E c \in Callers :
    /\ fleet[c].pc = "respondido"
    /\ fleet[c].rota = "todas"
    /\ fleet[c].resposta.status = 500

\* C9 (idempotence): a tenant sync that succeeds on the snapshot (of N distinct
\* records) that the tenant's previous sync succeeded on, inserts nothing and
\* updates N, and the tenant has N active rows after the first and after the
\* second.
C9_Idempotente ==
  \A c \in Callers :
    LET r == run[c]
        u == ultimo[r.idSistema]
        N == Len(r.h_snapshot)
    IN (Sucesso(c) /\ u.valido /\ u.cabecalhos = r.h_snapshot
          /\ SemRepetidos(r.h_snapshot)) =>
         /\ r.resultado.registrosInseridos = 0
         /\ r.resultado.registrosAtualizados = N
         /\ u.ativasDepois = N
         /\ Cardinality(Ativas(mirror, r.idSistema)) = N

\* C10 (batch fault isolation): a record whose statements fail is skipped and
\* nothing else: through every batch the inserts and updates counted are the
\* records processed less the records skipped, every batch gone through is
\* committed, and the success outcome carries that count.
C10_IsolamentoDeFalha ==
  \A c \in Callers :
    LET r == run[c] IN
    /\ r.pc \in {"upsert", "write"} =>
         /\ r.inseridos + r.atualizados = r.i + (r.j - 1) - r.h_pulados
         /\ r.h_lotes * BATCH_SIZE = r.i
    /\ r.pc \in {"commit", "logSucesso"} =>
         /\ r.inseridos + r.atualizados = Len(r.cabecalhos) - r.h_pulados
         /\ r.h_lotes * BATCH_SIZE >= Len(r.cabecalhos)
    /\ Sucesso(c) =>
         r.resultado.registrosInseridos + r.resultado.registrosAtualizados
           = Len(r.h_snapshot) - r.h_pulados

\* a batch of 100 with one record skipped was committed with 99 upserts, and the
\* next batch is under way
C10_Testemunha ==
  \E c \in Callers :
    /\ run[c].pc = "upsert"
    /\ run[c].i = BATCH_SIZE
    /\ run[c].h_pulados = 1
    /\ run[c].h_lotes = 1
    /\ run[c].inseridos + run[c].atualizados = 99


\* C11 (connection released): a tenant sync that acquired a connection has called
\* close on it exactly once when it returns, whatever failed before (a stage, the
\* rollback, the log), and not before; a run that acquired none calls no close;
\* the connection is still open after the run only if close itself threw.
C11_ConexaoFechadaUmaVez ==
  \A c \in Callers :
    LET r == run[c] IN
    /\ r.pc = "retorno" =>
         /\ r.h_closes = (IF r.connection THEN 1 ELSE 0)
         /\ r.aberta => r.h_closeFalhou
    /\ r.pc \notin {"retorno", "idle"} =>
         /\ r.h_closes = 0
         /\ r.aberta = r.connection

\* a run whose final commit, rollback and log all failed closed its connection
C11_Testemunha ==
  \E c \in Callers :
    /\ Falha(c)
    /\ run[c].connection
    /\ run[c].h_rollbackFalhou
    /\ run[c].h_logFalhou
    /\ run[c].h_closes = 1
    /\ ~run[c].aberta


\* C12 (no overlapping runs): at any time at most one tenant sync is in progress
\* for a tenant, also when two requests arrive at the same time.
C12_SemSobreposicao ==
  \A c \in Callers, d \in Callers :
    (c # d /\ run[c].pc # "idle" /\ run[d].pc # "idle")
      => run[c].idSistema # run[d].idSistema


\* C13 as claimed (stale-mark committed first): when the first upsert batch
\* begins the stale-marking is committed, so the durable rows of the tenant are
\* all inactive.
C13_MarcaDuravelAntesDoLote ==
  \A c \in Callers :
    LET r == run[c] IN
    (r.pc = "upsert" /\ r.i = 0 /\ r.j = 1) => Ativas(mirror, r.idSistema) = {}

\* C13 as amended: the stale-marking is executed before the first upsert batch
\* begins (the connection then sees no active row of the tenant) but stays
\* pending: until the first batch is committed the durable rows of the tenant
\* are those of before the run; from then on a row that was active before the
\* run is active only if this run refreshed it.
C13_MarcaPendenteAteOLote ==
  \A c \in Callers :
    LET r == run[c]
        t == r.idSistema
    IN /\ (r.pc \in {"upsert", "write"} /\ r.h_lotes = 0) =>
            /\ DoTenant(mirror, t) = r.h_antes
            /\ (r.i = 0 /\ r.j = 1) =>
                 /\ Ativas(Visao(mirror, r.tx), t) = {}
                 /\ r.registrosDeletados = Cardinality(Ativas(r.h_antes, t))
       /\ (r.pc \in {"upsert", "write", "commit"} /\ r.h_lotes > 0) =>
            \A k \in Ativas(r.h_antes, t) :
              mirror[k].SANKHYA_ATUAL = "S" => mirror[k].DT_ULT_CARGA = relogio

\* the first batch is about to begin and the rows active before the run are
\* still durably active
C13_Testemunha ==
  \E c \in Callers :
    /\ run[c].pc = "upsert"
    /\ run[c].i = 0
    /\ run[c].j = 1
    /\ Ativas(run[c].h_antes, run[c].idSistema) # {}
    /\ Ativas(mirror, run[c].idSistema) = Ativas(run[c].h_antes, run[c].idSistema)


\* C14 (bounded page-level retry): the requests for one page that are refused
\* 401/403 and answered by a renewal are bounded (here by the attempt ceiling):
\* after that many refusals the retriever does not go round the loop again.
C14_RenovacaoLimitada ==
  \A c \in Callers :
    run[c].pc = "pagina" => run[c].h_authVezes < MAX_RETRIES


\* C15 (permanent failure aborts): after a page request failed with a 4xx other
\* than 401/403, a payload that cannot be mapped or no active contract, the
\* retrieval is never in its page loop again: it fails at once, in the attempt
\* in which the failure happened (the first, if nothing failed before), naming
\* that attempt and the failure, whatever is left of the attempt budget.
C15_PermanenteAborta ==
  \A c \in Callers :
    LET r == run[c] IN
    /\ r.pc = "pagina" => ~r.h_permanente
    /\ r.h_permanente =>
         /\ r.pc = "logFalha"
         /\ r.h_estagio = "busca"
         /\ r.h_causa \in ErrosPermanentes
         /\ r.error.message.tentativas = r.h_tentativas
         /\ r.error.message.causa = r.h_causa.message.texto
         /\ ~r.connection

\* a 404 on the first attempt: failed after one attempt
C15_Testemunha ==
  \E c \in Callers :
    /\ run[c].pc = "logFalha"
    /\ run[c].h_causa = E404
    /\ run[c].h_permanente
    /\ run[c].h_tentativas = 1
    /\ run[c].error.message.tentativas = 1


\* C16 (every transient class retried): a retrieval ended by a failure of the
\* transient class, a connection reset among them, has used up its attempts.
C16_TodoTransitorioRepete ==
  \A c \in Callers :
    LET r == run[c] IN
    (r.pc = "logFalha" /\ r.h_estagio = "busca" /\ r.h_causa \in ClasseTransitoria)
      => r.h_tentativas = MAX_RETRIES

\* C17 (authentication failure at the outer layer): a retrieval ended by a 401/403
\* that reached the outer catch has used up its attempts: while attempts remain
\* the credential is renewed and the retrieval retried.
C17_AuthExternoRenova ==
  \A c \in Callers :
    LET r == run[c] IN
    (r.pc = "logFalha" /\ r.h_estagio = "busca" /\ r.h_causa \in {E401, E403})
      => r.h_tentativas = MAX_RETRIES

\* C18 (latest credential): every page request is sent with the credential the
\* TokenSupplier issued last for the tenant.
C18_CredencialAtual ==
  \A c \in Callers :
    run[c].pc = "pagina" => run[c].currentToken = issued[run[c].idSistema]


\* C19 (pagination termination rule): an attempt asks for page 0 first; the page
\* index stays (a refusal, nothing accumulated) or advances by exactly one, and
\* advances only past a fetched page with records and a true has-more indicator,
\* whose records are appended; the retrieval returns after the first fetched page
\* without entity payload, without records (whatever its has-more indicator) or
\* with a false has-more indicator.
C19_RegraDePaginacao ==
  [][\A c \in Callers :
       LET r == run[c]
           r2 == run'[c]
           resp == Resposta(remote[r.idSistema], r.currentPage)
           ultima == ~resp.entity \/ Len(resp.recs) = 0 \/ ~resp.more
       IN /\ (r.pc = "token" /\ r2.pc = "pagina") => r2.currentPage = 0
          /\ (r.pc = "pagina" /\ r2.pc = "pagina") =>
               IF r2.retryCount # r.retryCount
               THEN r2.currentPage = 0 /\ r2.allCabecalhos = <<>>
               ELSE \/ /\ r2.currentPage = r.currentPage
                       /\ r2.allCabecalhos = r.allCabecalhos
                    \/ /\ r2.currentPage = r.currentPage + 1
                       /\ ~ultima
                       /\ r2.allCabecalhos = r.allCabecalhos \o resp.recs
          /\ (r.pc = "pagina" /\ r2.pc = "connect") =>
               /\ ultima
               /\ r2.cabecalhos = r.allCabecalhos \o resp.recs]_vars

\* an empty page with a true has-more indicator ended the pagination: the record
\* of the page after it was not fetched
C19_Testemunha ==
  \E c \in Callers :
    /\ run[c].pc = "connect"
    /\ Len(run[c].cabecalhos) = 2
    /\ run[c].cabecalhos[2].NUNOTA = 5


\* C20 (no physical delete, created once): whatever a step of a tenant sync
\* commits, successful or failed, every committed key stays, the creation
\* timestamp of every row that existed stays, and a row that appears was created
\* by that commit (its creation timestamp is its refresh timestamp).
C20_NuncaApagaNemRecria ==
  [][/\ DOMAIN mirror \subseteq DOMAIN mirror'
     /\ \A k \in DOMAIN mirror : mirror'[k].DT_CRIACAO = mirror[k].DT_CRIACAO
     /\ \A k \in DOMAIN mirror' \ DOMAIN mirror :
          /\ mirror'[k].DT_CRIACAO = relogio
          /\ mirror'[k].DT_ULT_CARGA = relogio
          /\ mirror'[k].SANKHYA_ATUAL = "S"]_vars

\* a row created by the first sync was refreshed by the second
C20_Testemunha ==
  \E k \in DOMAIN mirror :
    /\ mirror[k].SANKHYA_ATUAL = "S"
    /\ mirror[k].DT_CRIACAO = 1
    /\ mirror[k].DT_ULT_CARGA = 2


\* C21 (tenant isolation): no step of a sync of tenant A, successful or failed,
\* changes a committed row of another tenant B (its active flag, its business
\* fields, its timestamps) or adds or removes one, and no statement pending on
\* A's connection is about a row of B, also when A's snapshot has record
\* identifiers that B has too.
C21_IsolamentoDeTenant ==
  [][\A c \in Callers :
       run[c].pc # "idle" =>
         /\ \A B \in Tenants \ {run[c].idSistema} :
              DoTenant(mirror', B) = DoTenant(mirror, B)
         /\ \A k \in DOMAIN run'[c].tx : k[1] = run[c].idSistema]_vars

\* tenant 1 was synchronised after tenant 2 on a snapshot with the same record
\* identifiers: the rows of tenant 2 are as its own sync left them
C21_Testemunha ==
  \E c \in Callers :
    /\ Sucesso(c)
    /\ run[c].idSistema = 1
    /\ relogio = 2
    /\ <<1, 1, c>> \in DOMAIN mirror /\ <<2, 1, c>> \in DOMAIN mirror
    /\ mirror[<<1, 1, c>>].DT_ULT_CARGA = 2
    /\ mirror[<<2, 1, c>>].SANKHYA_ATUAL = "S"
    /\ mirror[<<2, 1, c>>].DT_ULT_CARGA = 1


\* the run holds no connection and has issued nothing to the store: the
\* committed rows of its tenant are those of before the run
NadaNoBanco(r) ==
  /\ ~r.connection
  /\ ~r.aberta
  /\ r.tx = Vazio
  /\ r.h_lotes = 0
  /\ r.h_closes = 0
  /\ ~r.h_rollbackFalhou
  /\ r.registrosDeletados = 0
  /\ r.inseridos = 0
  /\ r.atualizados = 0
  /\ DoTenant(mirror, r.idSistema) = r.h_antes

\* C22 (retrieval failure leaves the mirror untouched): up to the end of the
\* retrieval a tenant sync holds no connection and has issued no stale-marking,
\* upsert, commit or rollback; when the initial renewal or the retrieval fails
\* (a non-transient error or the attempts used up) that stays so until the run
\* returns, the rows of the tenant are those of before the run and the failure
\* outcome carries the error and zero for every count.
C22_FalhaDaBuscaNaoTocaOEspelho ==
  \A c \in Callers :
    LET r == run[c]
        o == r.resultado
    IN /\ r.pc \in {"token", "pagina"} => NadaNoBanco(r)
       /\ r.h_estagio \in {"token", "busca"} =>
            /\ r.pc \in {"logFalha", "retorno"}
            /\ NadaNoBanco(r)
            /\ r.pc = "retorno" =>
                 /\ ~o.success
                 /\ o.erro = r.error.message
                 /\ o.totalRegistros = 0
                 /\ o.registrosInseridos = 0
                 /\ o.registrosAtualizados = 0
                 /\ o.registrosDeletados = 0

\* the retrieval of a tenant with active rows failed at its third attempt: the
\* rows are as the sync before left them
C22_Testemunha ==
  \E c \in Callers :
    /\ Falha(c)
    /\ run[c].h_estagio = "busca"
    /\ run[c].resultado.erro.tentativas = 3
    /\ Cardinality(Ativas(mirror, run[c].idSistema)) = 4
    /\ \A k \in Ativas(mirror, run[c].idSistema) : mirror[k].DT_ULT_CARGA = 1


\* the rows of tenant t that are flagged 'N'
Inativas(m, t) == {k \in DOMAIN m : k[1] = t /\ m[k].SANKHYA_ATUAL = "N"}

\* C23 (outcome counts): from the stale-marking on, the marked count of the run
\* is the number of rows of the tenant that were active before the run; in every
\* success outcome totalRegistros is the length of the snapshot,
\* registrosInseridos + registrosAtualizados is that length less the records
\* skipped, and registrosDeletados is the marked count, whatever the number of
\* rows that end the run inactive.
C23_ContagensDoResultado ==
  \A c \in Callers :
    LET r == run[c]
        o == r.resultado
        marcadas == Cardinality(Ativas(r.h_antes, r.idSistema))
    IN /\ r.pc \in {"upsert", "write", "commit", "logSucesso"} =>
            r.registrosDeletados = marcadas
       /\ Sucesso(c) =>
            /\ o.totalRegistros = Len(r.h_snapshot)
            /\ o.totalRegistros = Len(r.cabecalhos)
            /\ o.registrosInseridos + o.registrosAtualizados
                 = Len(r.h_snapshot) - r.h_pulados
            /\ o.registrosInseridos >= 0 /\ o.registrosAtualizados >= 0
            /\ o.registrosDeletados = marcadas

\* the second sync of four records skipped one: 4 fetched, 3 updated, 4 marked,
\* and one row ends the run inactive
C23_Testemunha ==
  \E c \in Callers :
    /\ Sucesso(c)
    /\ run[c].resultado.totalRegistros = 4
    /\ run[c].resultado.registrosInseridos = 0
    /\ run[c].resultado.registrosAtualizados = 3
    /\ run[c].resultado.registrosDeletados = 4
    /\ run[c].h_pulados = 1
    /\ Cardinality(Inativas(mirror, run[c].idSistema)) = 1

=============================================================================
